---- MODULE Spec2Model ----
(***************************************************************************)
(* Catalog cache-and-retrieval engine of fdk-mcp.                          *)
(*                                                                         *)
(* The model follows the asyncio scheduling of the use cases: one action   *)
(* is one run of a coroutine between two suspension points (an awaited     *)
(* catalog call, an awaited sleep, a semaphore acquisition).               *)
(*                                                                         *)
(* Strings are sequences of one-character strings, so that lower-casing    *)
(* and substring matching are computed, not assumed.                       *)
(***************************************************************************)
EXTENDS Integers, Sequences, FiniteSets, TLC

\* ------------------------------------------------------------------ bounds
NObj == 2          \* number of objects the remote catalog lists
MaxConc == 2       \* largest max_concurrent a request carries
MaxRelease == 2    \* number of releases the remote catalog publishes
MaxLimit == 2      \* largest result limit a search request carries

\* ------------------------------------------------------- program constants
max_retries == 3   \* default of _download_with_retry

Ids == 1..NObj

\* ------------------------------------------------------------ catalog data
\* Domain of the listed objects: odd ids are bridges, even ids tunnels.
DomainOf(i) == IF i % 2 = 1 THEN <<"B", "r">> ELSE <<"T", "u">>

\* The listing of fetch_all_objects, in catalog order.
Listing == [i \in 1..NObj |-> i]

\* str.lower() on one character.
LowerChar(c) ==
    CASE c = "A" -> "a"
      [] c = "B" -> "b"
      [] c = "R" -> "r"
      [] c = "T" -> "t"
      [] c = "U" -> "u"
      [] OTHER -> c

\* str.lower()
Lower(s) == [k \in DOMAIN s |-> LowerChar(s[k])]

\* The domain filters a request may carry.  The empty string stands for
\* both None and "", which `if request.domain_filter` treats alike.
NoFilter == <<>>
DomainFilters == {NoFilter, <<"b", "r">>, <<"T", "U">>, <<"t", "r">>}

\* _filter_by_domain: case-insensitive equality on the domain name.
RECURSIVE _filter_by_domain(_, _)
_filter_by_domain(objects, domain_filter) ==
    IF objects = <<>> THEN <<>>
    ELSE LET rest == _filter_by_domain(Tail(objects), domain_filter)
         IN IF Lower(DomainOf(Head(objects))) = Lower(domain_filter)
            THEN <<Head(objects)>> \o rest
            ELSE rest

\* Steps 1-2 of execute: the listing, filtered when a filter is given.
FilteredListing(domain_filter) ==
    IF domain_filter # NoFilter
    THEN _filter_by_domain(Listing, domain_filter)
    ELSE Listing

SeqToSet(s) == {s[k] : k \in DOMAIN s}

VARIABLES
    srcRelease,     \* release tag the remote catalog currently reports
    cachePresent,   \* cache_repo is not None
    cache,          \* id -> "none" | "summary" | "detail"
    cacheRelease,   \* release tag stored by update_metadata (0: none)
    cacheCount,     \* object count stored by update_metadata
    cacheAge,       \* hours since the last update_metadata
    guarded,        \* a summary save has met a stored detail record
    op,             \* the last operation: "none" | "download" | "update" | ...
    pc,             \* "idle" | "listing" | "running" | "returned" | "raised"
    req,            \* the request of the running batch
    response,       \* the CatalogResponse of the listing call
    all_objects,    \* the domain-filtered listing
    to_download,    \* the ids the batch dispatches
    already_cached, \* update: ids skipped
    semaphore,      \* value of the asyncio.Semaphore
    tpc,            \* id -> position of its download_one task
    attempt,        \* id -> loop variable of _download_with_retry
    successful,     \* nonlocal counter
    failed,         \* nonlocal counter
    stats,          \* the returned statistics
    fetchCalls,     \* id -> calls of fetch_object_by_id in this batch
    sleeps,         \* id -> the delays slept between attempts
    lastError,      \* id -> error of its most recent failed attempt
    saved,          \* ids this batch has saved
    cacheAtStart,   \* the cache contents when the batch was dispatched
    sop,            \* the running search: "none" | "advanced" | "properties"
    spc,            \* position of the search use case
    sreq,           \* the search request
    sobjects,       \* the objects the search resolved, as <<id, level>> records
    sdownloaded,    \* index -> outcome of its detail prefetch
    sresult,        \* the objects searched, after the prefetch
    sresp,          \* the search response
    qop,            \* the running query: "none" | "get_object" | "coverage"
                    \*   | "list_objects" | "request"
    qpc,            \* "idle" | "fetching" | "listing" | "fresh_check"
                    \*   | "attempt" | "sleeping" | "returned" | "raised"
    qreq,           \* the request of the query
    qresp,          \* the response of the query
    qerr,           \* the error the query raised to its caller
    qcalls,         \* catalog calls the query has made
    qfetch,         \* outcome of its catalog call: "none" | "returned" | error
    qsaved,         \* ids getObject has fetched and saved so far
    qlangs,         \* languages of the catalog calls of the query
    gcatalog,       \* id -> content of the object the remote catalog serves
    gpc,            \* position of GroupObjectsUseCase.execute
    greq,           \* the GroupObjectsRequest
    gcached,        \* _fetch_objects: cached_objects
    gmissing,       \* _fetch_objects: missing_ids
    gresult         \* the GroupedObjects returned

cacheVars == <<cachePresent, cache, cacheRelease, cacheCount, cacheAge, guarded>>
batchVars == <<op, pc, req, response, all_objects, to_download, already_cached,
               semaphore, tpc, attempt, successful, failed, stats,
               fetchCalls, sleeps, lastError, saved, cacheAtStart>>
searchVars == <<sop, spc, sreq, sobjects, sdownloaded, sresult, sresp>>
queryVars == <<qop, qpc, qreq, qresp, qerr, qcalls, qfetch, qsaved, qlangs>>
groupVars == <<gcatalog, gpc, greq, gcached, gmissing, gresult>>
vars == <<srcRelease, cacheVars, batchVars, searchVars, queryVars, groupVars>>

NoStats == [total_objects |-> -1, downloaded |-> -1, cached |-> -1,
            already_cached |-> -1, failed |-> -1]
NoReq == [domain_filter |-> NoFilter, max_concurrent |-> 0, force_refresh |-> FALSE]
NoResponse == [total_count |-> 0, release |-> 0]
NoSearch == [search_fields |-> <<>>, query |-> <<>>, domain_filter |-> NoFilter,
             match_mode |-> "contains", case_sensitive |-> FALSE, limit |-> <<>>]
NoSearchResponse == [matches |-> <<>>, total_matches |-> -1]
NoCoverage == [total_objects |-> -1, cached_with_details |-> -1,
               cached_summary_only |-> -1, not_cached |-> -1,
               coverage_percentage |-> [num |-> 0, den |-> 1],
               estimated_download_time_seconds |-> <<>>,
               missing_object_ids |-> <<>>]
NoQuery == [object_id |-> 0, domain_filter |-> NoFilter]
NoQueryResponse == [object |-> 0, level |-> "none", from_cache |-> FALSE,
                    stats |-> NoCoverage]
NoGroupRequest == [object_ids |-> <<>>, group_by |-> <<>>, is_list |-> FALSE,
                   sort_by |-> <<>>, order |-> "asc", include_count |-> FALSE]
NoGrouped == [groups |-> <<>>, total_objects |-> -1, group_counts |-> <<>>,
              has_counts |-> FALSE]

\* Content of the objects the grouping works on: a name, a domain (possibly
\* empty), the IFC classes and the names of the property sets.
GroupContents ==
    { [name |-> <<"a">>, domain |-> <<"b", "/", "c">>,
       classifications |-> <<<<"I">>>>, property_sets |-> <<<<"P">>, <<"Q">>>>],
      [name |-> <<"a", "/", "b">>, domain |-> <<"c">>,
       classifications |-> <<>>, property_sets |-> <<<<"P">>>>],
      [name |-> <<"a">>, domain |-> <<>>,
       classifications |-> <<<<"I">>>>, property_sets |-> <<<<"Q">>>>] }
DefaultContent == [name |-> <<"a">>, domain |-> <<"b", "/", "c">>,
                   classifications |-> <<<<"I">>>>,
                   property_sets |-> <<<<"P">>, <<"Q">>>>]

\* No getObject or getCacheCoverage call has been made.
QueryIdle ==
    /\ qop = "none"
    /\ qpc = "idle"
    /\ qreq = NoQuery
    /\ qresp = NoQueryResponse
    /\ qerr = "none"
    /\ qcalls = 0
    /\ qfetch = "none"
    /\ qsaved = {}
    /\ qlangs = {}

\* No groupObjects call has been made.
GroupIdle ==
    /\ gpc = "idle"
    /\ greq = NoGroupRequest
    /\ gcached = <<>>
    /\ gmissing = <<>>
    /\ gresult = NoGrouped

\* ------------------------------------------------------------------- cache
\* CatalogObject.has_property_sets on a cache record.
NeverDetailed(rec) == FALSE
has_property_sets(rec) == rec = "detail"

\* save_object with the no-downgrade rule of the cache contract.
DowngradingSave(c, object_id, obj) == [c EXCEPT ![object_id] = obj]
save_object(c, object_id, obj) ==
    IF c[object_id] = "detail" /\ obj = "summary"
    THEN c
    ELSE [c EXCEPT ![object_id] = obj]

\* is_cache_fresh: the stored release tag equals the current one.
ExpiresWithAge(current_release) ==
    cacheRelease = current_release /\ cacheAge = 0
is_cache_fresh(current_release) == cacheRelease = current_release

\* for obj in response.objects: cache.save_object(obj.id, obj)
RECURSIVE SaveSummaries(_, _)
SaveSummaries(c, objects) ==
    IF objects = <<>> THEN c
    ELSE SaveSummaries(save_object(c, Head(objects), "summary"), Tail(objects))

\* ------------------------------------------------------------------- batch
Quiet == pc \in {"idle", "returned", "raised"}

ResetTasks ==
    /\ semaphore' = 0
    /\ tpc' = [i \in Ids |-> "none"]
    /\ attempt' = [i \in Ids |-> 0]
    /\ successful' = 0
    /\ failed' = 0
    /\ fetchCalls' = [i \in Ids |-> 0]
    /\ sleeps' = [i \in Ids |-> <<>>]
    /\ lastError' = [i \in Ids |-> "none"]
    /\ saved' = {}
    /\ all_objects' = <<>>
    /\ to_download' = <<>>
    /\ already_cached' = 0
    /\ response' = NoResponse
    /\ cacheAtStart' = [i \in Ids |-> "none"]

Init ==
    /\ srcRelease = 1
    /\ cachePresent \in BOOLEAN
    /\ cache = [i \in Ids |-> "none"]
    /\ cacheRelease = 0
    /\ cacheCount = 0
    /\ cacheAge = 0
    /\ guarded = FALSE
    /\ op = "none"
    /\ pc = "idle"
    /\ req = NoReq
    /\ response = NoResponse
    /\ all_objects = <<>>
    /\ to_download = <<>>
    /\ already_cached = 0
    /\ semaphore = 0
    /\ tpc = [i \in Ids |-> "none"]
    /\ attempt = [i \in Ids |-> 0]
    /\ successful = 0
    /\ failed = 0
    /\ stats = NoStats
    /\ fetchCalls = [i \in Ids |-> 0]
    /\ sleeps = [i \in Ids |-> <<>>]
    /\ lastError = [i \in Ids |-> "none"]
    /\ saved = {}
    /\ cacheAtStart = [i \in Ids |-> "none"]
    /\ sop = "none"
    /\ spc = "idle"
    /\ sreq = NoSearch
    /\ sobjects = <<>>
    /\ sdownloaded = <<>>
    /\ sresult = <<>>
    /\ sresp = NoSearchResponse
    /\ QueryIdle
    /\ gcatalog = [i \in Ids |-> DefaultContent]
    /\ GroupIdle

\* DownloadCatalogUseCase.execute up to its first await (fetch_all_objects).
DownloadCall(domain_filter, max_concurrent) ==
    /\ Quiet
    /\ op' = "download"
    /\ pc' = "listing"
    /\ req' = [domain_filter |-> domain_filter, max_concurrent |-> max_concurrent,
               force_refresh |-> FALSE]
    /\ stats' = NoStats
    /\ ResetTasks
    /\ UNCHANGED <<srcRelease, cacheVars>>
    /\ UNCHANGED <<searchVars, queryVars, groupVars>>

\* UpdateCacheUseCase.execute up to its first await; without a cache it
\* returns empty statistics at once.
UpdateCall(domain_filter, force_refresh, max_concurrent) ==
    /\ Quiet
    /\ op' = "update"
    /\ req' = [domain_filter |-> domain_filter, max_concurrent |-> max_concurrent,
               force_refresh |-> force_refresh]
    /\ ResetTasks
    /\ IF ~cachePresent
       THEN /\ pc' = "returned"
            /\ stats' = [total_objects |-> 0, downloaded |-> 0, cached |-> 0,
                         already_cached |-> 0, failed |-> 0]
       ELSE /\ pc' = "listing"
            /\ stats' = NoStats
    /\ UNCHANGED <<srcRelease, cacheVars>>
    /\ UNCHANGED <<searchVars, queryVars, groupVars>>

\* fetch_all_objects raises: execute raises CatalogError.
ListingFails ==
    /\ pc = "listing"
    /\ pc' = "raised"
    /\ UNCHANGED <<srcRelease, cacheVars, op, req, response, all_objects,
                   to_download, already_cached, semaphore, tpc, attempt,
                   successful, failed, stats, fetchCalls, sleeps, lastError,
                   saved, cacheAtStart>>
    /\ UNCHANGED <<searchVars, queryVars, groupVars>>

\* The loop of _find_objects_to_download: an object is downloaded when it
\* is not cached or only its summary is cached.
RECURSIVE SelectMissing(_)
SelectMissing(objects) ==
    IF objects = <<>> THEN <<>>
    ELSE LET rest == SelectMissing(Tail(objects))
         IN IF cache[Head(objects)] = "none"
            THEN <<Head(objects)>> \o rest
            ELSE rest

RECURSIVE SelectToDownload(_)
SelectToDownload(objects) ==
    IF objects = <<>> THEN <<>>
    ELSE LET cached_obj == cache[Head(objects)]
             rest == SelectToDownload(Tail(objects))
         IN IF cached_obj = "none" \/ ~has_property_sets(cached_obj)
            THEN <<Head(objects)>> \o rest
            ELSE rest

\* UpdateCacheUseCase._find_objects_to_download
IgnoresForce(objects, force_refresh) ==
    IF ~cachePresent THEN objects ELSE SelectToDownload(objects)
_find_objects_to_download(objects, force_refresh) ==
    IF ~cachePresent THEN objects
    ELSE IF force_refresh THEN objects
    ELSE SelectToDownload(objects)

\* The ids a batch dispatches: every listed id for a download.
Dispatch(objects) ==
    IF op = "update"
    THEN _find_objects_to_download(objects, req.force_refresh)
    ELSE objects

\* total = len(all_objects), taken after the domain filter.
TotalOfListing(objects) == Len(Listing)
TotalOf(objects) == Len(objects)

\* already_cached = total_objects - len(objects_to_download)
CountCachedDetails(objects, todo) == Cardinality({i \in Ids : cache[i] = "detail"})
AlreadyCached(objects, todo) == TotalOf(objects) - Len(todo)

\* asyncio.Semaphore(value) raises ValueError for a negative value.
SemaphoreRaises(value) == value < 0

\* execute from the return of fetch_all_objects to `await gather(...)`.
ListingReturns ==
    /\ pc = "listing"
    /\ LET objs == FilteredListing(req.domain_filter)
           todo == Dispatch(objs)
       IN /\ response' = [total_count |-> NObj, release |-> srcRelease]
          /\ all_objects' = objs
          /\ cacheAtStart' = cache
          /\ IF objs = <<>>
             THEN /\ pc' = "returned"
                  /\ stats' = [total_objects |-> 0, downloaded |-> 0, cached |-> 0,
                               already_cached |-> 0, failed |-> 0]
                  /\ UNCHANGED <<to_download, already_cached, semaphore, tpc>>
             ELSE IF op = "update" /\ todo = <<>>
             THEN /\ pc' = "returned"
                  /\ already_cached' = AlreadyCached(objs, todo)
                  /\ stats' = [total_objects |-> TotalOf(objs), downloaded |-> 0,
                               cached |-> 0,
                               already_cached |-> AlreadyCached(objs, todo),
                               failed |-> 0]
                  /\ UNCHANGED <<to_download, semaphore, tpc>>
             ELSE IF SemaphoreRaises(req.max_concurrent)
             THEN /\ pc' = "raised"
                  /\ already_cached' = IF op = "update" THEN AlreadyCached(objs, todo) ELSE 0
                  /\ UNCHANGED <<to_download, semaphore, tpc, stats>>
             ELSE /\ pc' = "running"
                  /\ to_download' = todo
                  /\ already_cached' = IF op = "update" THEN AlreadyCached(objs, todo) ELSE 0
                  /\ semaphore' = req.max_concurrent
                  /\ tpc' = [i \in Ids |-> IF i \in SeqToSet(todo) THEN "waiting" ELSE "none"]
                  /\ UNCHANGED stats
    /\ UNCHANGED <<srcRelease, cacheVars, op, req, attempt, successful, failed,
                   fetchCalls, sleeps, lastError, saved>>
    /\ UNCHANGED <<searchVars, queryVars, groupVars>>

\* `async with semaphore`: a task enters while the value is positive.
EntersAlways(value) == TRUE
CanEnter(value) == value > 0

\* download_one: `async with semaphore` is entered and the first
\* fetch_object_by_id call is issued.
Acquire(i) ==
    /\ pc = "running"
    /\ tpc[i] = "waiting"
    /\ CanEnter(semaphore)
    /\ semaphore' = semaphore - 1
    /\ tpc' = [tpc EXCEPT ![i] = "fetching"]
    /\ fetchCalls' = [fetchCalls EXCEPT ![i] = @ + 1]
    /\ UNCHANGED <<srcRelease, cacheVars, op, pc, req, response, all_objects,
                   to_download, already_cached, attempt, successful, failed,
                   stats, sleeps, lastError, saved, cacheAtStart>>
    /\ UNCHANGED <<searchVars, queryVars, groupVars>>

\* `if self.cache: self.cache.save_object(object_id, obj)` of
\* _download_with_retry, on the pair of the cache and the ids saved so far.
SkipPersist(st, object_id) == st
PersistFetched(st, object_id) ==
    [cache |-> save_object(st.cache, object_id, "detail"),
     saved |-> st.saved \cup {object_id}]

\* fetch_object_by_id returns: the object is saved, _download_with_retry
\* returns True, the task counts the success and leaves the semaphore.
FetchReturns(i) ==
    /\ pc = "running"
    /\ tpc[i] = "fetching"
    /\ IF cachePresent
       THEN LET st == PersistFetched([cache |-> cache, saved |-> saved], i)
            IN /\ cache' = st.cache
               /\ saved' = st.saved
       ELSE UNCHANGED <<cache, saved>>
    /\ successful' = successful + 1
    /\ semaphore' = semaphore + 1
    /\ tpc' = [tpc EXCEPT ![i] = "succeeded"]
    /\ UNCHANGED <<srcRelease, cachePresent, cacheRelease, cacheCount, cacheAge, guarded,
                   op, pc, req, response, all_objects, to_download,
                   already_cached, attempt, failed, stats, fetchCalls, sleeps,
                   lastError, cacheAtStart>>
    /\ UNCHANGED <<searchVars, queryVars, groupVars>>

\* The delay slept after the failure of attempt `a`: 2**attempt seconds.
RECURSIVE Pow2(_)
Pow2(n) == IF n = 0 THEN 1 ELSE 2 * Pow2(n - 1)
ConstantDelay(a) == 1
BackoffDelay(a) == Pow2(a)

\* `except Exception` of _download_with_retry: the last attempt gives up,
\* every other attempt sleeps, whatever the error.
GivesUp(a, error) == a = max_retries - 1

\* fetch_object_by_id raises `error`.
FetchRaises(i, error) ==
    /\ pc = "running"
    /\ tpc[i] = "fetching"
    /\ lastError' = [lastError EXCEPT ![i] = error]
    /\ IF GivesUp(attempt[i], error)
       THEN /\ failed' = failed + 1
            /\ semaphore' = semaphore + 1
            /\ tpc' = [tpc EXCEPT ![i] = "failed"]
            /\ UNCHANGED sleeps
       ELSE /\ sleeps' = [sleeps EXCEPT ![i] = Append(@, BackoffDelay(attempt[i]))]
            /\ tpc' = [tpc EXCEPT ![i] = "sleeping"]
            /\ UNCHANGED <<failed, semaphore>>
    /\ UNCHANGED <<srcRelease, cacheVars, op, pc, req, response, all_objects,
                   to_download, already_cached, attempt, successful, stats,
                   fetchCalls, saved, cacheAtStart>>
    /\ UNCHANGED <<searchVars, queryVars, groupVars>>

\* asyncio.sleep returns: the next attempt calls fetch_object_by_id.
Wake(i) ==
    /\ pc = "running"
    /\ tpc[i] = "sleeping"
    /\ attempt' = [attempt EXCEPT ![i] = @ + 1]
    /\ fetchCalls' = [fetchCalls EXCEPT ![i] = @ + 1]
    /\ tpc' = [tpc EXCEPT ![i] = "fetching"]
    /\ UNCHANGED <<srcRelease, cacheVars, op, pc, req, response, all_objects,
                   to_download, already_cached, semaphore, successful, failed,
                   stats, sleeps, lastError, saved, cacheAtStart>>
    /\ UNCHANGED <<searchVars, queryVars, groupVars>>

\* gather returns: metadata is updated and the statistics are returned.
GatherReturns ==
    /\ pc = "running"
    /\ \A i \in Ids : tpc[i] \in {"none", "succeeded", "failed"}
    /\ IF cachePresent
       THEN /\ cacheRelease' = response.release
            /\ cacheCount' = response.total_count
            /\ cacheAge' = 0
       ELSE UNCHANGED <<cacheRelease, cacheCount, cacheAge>>
    /\ stats' = [total_objects |-> TotalOf(all_objects),
                 downloaded |-> successful,
                 cached |-> IF op = "download" THEN successful ELSE 0,
                 already_cached |-> already_cached,
                 failed |-> failed]
    /\ pc' = "returned"
    /\ UNCHANGED <<srcRelease, cachePresent, cache, guarded, op, req, response,
                   all_objects, to_download, already_cached, semaphore, tpc,
                   attempt, successful, failed, fetchCalls, sleeps, lastError,
                   saved, cacheAtStart>>
    /\ UNCHANGED <<searchVars, queryVars, groupVars>>

\* ------------------------------------------------------------- environment
\* The remote catalog publishes a new release.
PublishRelease ==
    /\ srcRelease < MaxRelease
    /\ srcRelease' = srcRelease + 1
    /\ UNCHANGED <<cacheVars, batchVars>>
    /\ UNCHANGED <<searchVars, queryVars, groupVars>>

\* --------------------------------------------------- other cache writers
\* They run between batches: the tool calls of one client are serial.

\* The statistics of the last batch have been delivered: another operation
\* starts from an idle fetcher.
ForgetBatch(operation) ==
    /\ op' = operation
    /\ pc' = "idle"
    /\ req' = NoReq
    /\ stats' = NoStats
    /\ ResetTasks
    /\ UNCHANGED srcRelease
    /\ UNCHANGED <<searchVars, queryVars, groupVars>>

\* _ensure_cache_fresh: a stale cache is overwritten with the listing's
\* summary objects and takes the listing's release tag.
EnsureFresh ==
    IF ~cachePresent \/ is_cache_fresh(srcRelease)
    THEN UNCHANGED cacheVars
    ELSE /\ cache' = SaveSummaries(cache, Listing)
         /\ guarded' = (guarded \/ \E i \in SeqToSet(Listing) : cache[i] = "detail")
         /\ cacheRelease' = srcRelease
         /\ cacheCount' = NObj
         /\ cacheAge' = 0
         /\ UNCHANGED cachePresent

\* ListObjectsUseCase._ensure_cache_fresh
ListObjectsEnsureFresh ==
    /\ Quiet
    /\ cachePresent
    /\ EnsureFresh
    /\ ForgetBatch("list")

\* AdvancedSearchUseCase._ensure_cache_fresh
AdvancedSearchEnsureFresh ==
    /\ Quiet
    /\ cachePresent
    /\ EnsureFresh
    /\ ForgetBatch("search")

\* A fetched detail object is saved (the save of getObject, of the search
\* prefetch and of groupObjects).
SaveDetail(object_id) ==
    /\ cache' = save_object(cache, object_id, "detail")
    /\ UNCHANGED <<cachePresent, cacheRelease, cacheCount, cacheAge, guarded>>

\* GetObjectUseCase.execute, live fetch succeeding: an id without a cached
\* detail record is fetched and saved.
GetObjectFetches(object_id) ==
    /\ Quiet
    /\ cachePresent
    /\ ~has_property_sets(cache[object_id])
    /\ SaveDetail(object_id)
    /\ ForgetBatch("get")

\* AdvancedSearchUseCase._ensure_detail_object, fetch succeeding: an object
\* of the cache without property sets is fetched and saved.
EnsureDetailObject(object_id) ==
    /\ Quiet
    /\ cachePresent
    /\ cache[object_id] = "summary"
    /\ SaveDetail(object_id)
    /\ ForgetBatch("search")

\* GroupObjectsUseCase._fetch_objects, fetch succeeding: an id without any
\* cache record is fetched and saved.
GroupObjectsFetches(object_id) ==
    /\ Quiet
    /\ cachePresent
    /\ cache[object_id] = "none"
    /\ SaveDetail(object_id)
    /\ ForgetBatch("group")

\* clear_cache: every record and the metadata are dropped.
ClearCache ==
    /\ Quiet
    /\ cachePresent
    /\ cache' = [i \in Ids |-> "none"]
    /\ cacheRelease' = 0
    /\ cacheCount' = 0
    /\ cacheAge' = 0
    /\ UNCHANGED <<cachePresent, guarded>>
    /\ ForgetBatch("clear")

\* ------------------------------------------------------------------ search
\* Content of the catalog objects.  A summary object has a name, a domain
\* and the IFC classes of the listing; a detail object adds a description,
\* property sets and the eBKP codes.
NameOf(i) == IF i % 2 = 1 THEN <<"B", "r", "a">> ELSE <<"T", "b", "r">>
DescriptionOf(i) == IF i % 2 = 1 THEN <<"a", "B", "r">> ELSE <<"b">>
SummaryClassificationsOf(i) == <<<<"B", "r">>>>
DetailClassificationsOf(i) == <<<<"B", "r">>, <<"b", "r", "a">>>>
PropertySetsOf(i) ==
    << [name |-> <<"B", "r">>,
        properties |-> << [name |-> <<"b", "r">>, value |-> <<<<"T", "b", "r">>>>],
                          [name |-> <<"a">>, value |-> <<>>] >>],
       [name |-> <<"a", "b", "r">>,
        properties |-> << [name |-> <<"B", "r", "a">>, value |-> <<<<"a">>>>] >>] >>

\* map_summary_to_catalog_object / map_detail_to_catalog_object.  An
\* optional value is a sequence of length 0 (None) or 1.
CatalogObject(i, level) ==
    [id |-> i,
     name |-> NameOf(i),
     domain |-> DomainOf(i),
     description |-> IF level = "detail" THEN <<DescriptionOf(i)>> ELSE <<>>,
     property_sets |-> IF level = "detail" THEN PropertySetsOf(i) ELSE <<>>,
     classifications |-> IF level = "detail" THEN DetailClassificationsOf(i)
                         ELSE SummaryClassificationsOf(i)]

MatchModes == {"contains", "equals", "starts_with", "ends_with"}
Queries == {<<"b", "r">>, <<"B">>, <<"a">>}
SearchFieldLists ==
    {<<"all">>, <<"name">>, <<"properties">>, <<"propertySets">>,
     <<"name", "classifications">>, <<"description", "domain">>,
     <<"ifcClassAssignments">>}
Limits == {<<>>} \cup {<<n>> : n \in 0..MaxLimit}

\* Python slice seq[:n].
PySliceTo(seq, n) ==
    IF n >= 0
    THEN SubSeq(seq, 1, IF n < Len(seq) THEN n ELSE Len(seq))
    ELSE SubSeq(seq, 1, IF Len(seq) + n > 0 THEN Len(seq) + n ELSE 0)

\* `query in value`, value.startswith(query), value.endswith(query)
Contains(value, query) ==
    \E k \in 0..(Len(value) - Len(query)) : SubSeq(value, k + 1, k + Len(query)) = query
StartsWith(value, query) ==
    Len(query) <= Len(value) /\ SubSeq(value, 1, Len(query)) = query
EndsWith(value, query) ==
    Len(query) <= Len(value)
    /\ SubSeq(value, Len(value) - Len(query) + 1, Len(value)) = query

\* AdvancedSearchUseCase._match_value
_match_value(value, query, match_mode, case_sensitive) ==
    LET v == IF ~case_sensitive THEN Lower(value) ELSE value
        q == IF ~case_sensitive THEN Lower(query) ELSE query
    IN CASE match_mode = "contains" -> Contains(v, q)
         [] match_mode = "equals" -> v = q
         [] match_mode = "starts_with" -> StartsWith(v, q)
         [] match_mode = "ends_with" -> EndsWith(v, q)
         [] OTHER -> FALSE

\* str(idx) inside f"{current_path}[{idx}]"
IndexStr(idx) == <<"0", "1", "2", "3", "4", "5">>[idx + 1]

\* AdvancedSearchUseCase._search_in_value on a tagged value: a string is
\* tested, a list is walked index by index, a map key by key.
RECURSIVE _search_in_value(_, _, _, _, _)
RECURSIVE SearchListItems(_, _, _, _, _, _)
RECURSIVE SearchDictItems(_, _, _, _, _)
_search_in_value(value, query, match_mode, case_sensitive, current_path) ==
    CASE value.t = "str" ->
           IF _match_value(value.s, query, match_mode, case_sensitive)
           THEN <<[path |-> current_path, value |-> value.s]>>
           ELSE <<>>
      [] value.t = "dict" ->
           SearchDictItems(value.items, query, match_mode, case_sensitive, current_path)
      [] value.t = "list" ->
           SearchListItems(value.items, 0, query, match_mode, case_sensitive, current_path)
      [] OTHER -> <<>>
SearchListItems(items, idx, query, match_mode, case_sensitive, current_path) ==
    IF items = <<>> THEN <<>>
    ELSE _search_in_value(Head(items), query, match_mode, case_sensitive,
                          current_path \o <<"[", IndexStr(idx), "]">>)
         \o SearchListItems(Tail(items), idx + 1, query, match_mode, case_sensitive,
                            current_path)
SearchDictItems(items, query, match_mode, case_sensitive, current_path) ==
    IF items = <<>> THEN <<>>
    ELSE LET key == Head(items).key
             new_path == IF current_path # <<>> THEN current_path \o <<".", key>>
                         ELSE <<key>>
         IN _search_in_value(Head(items).val, query, match_mode, case_sensitive, new_path)
            \o SearchDictItems(Tail(items), query, match_mode, case_sensitive,
                               current_path)

StrValue(s) == [t |-> "str", s |-> s]
ListValue(strings) == [t |-> "list", items |-> [k \in DOMAIN strings |-> StrValue(strings[k])]]
NoneValue == [t |-> "none"]

\* AdvancedSearchUseCase._get_field_value
_get_field_value(obj, field) ==
    CASE field = "name" -> StrValue(obj.name)
      [] field = "domain" -> StrValue(obj.domain)
      [] field = "description" ->
           IF obj.description = <<>> THEN NoneValue ELSE StrValue(obj.description[1])
      [] field = "classifications" -> ListValue(obj.classifications)
      [] OTHER -> NoneValue

SearchMatch(obj, field, match_path, matched_value, property_set_name) ==
    [object_id |-> obj.id, object_name |-> obj.name, domain |-> obj.domain,
     field |-> field, match_path |-> match_path, matched_value |-> matched_value,
     property_set_name |-> property_set_name]

\* AdvancedSearchUseCase._search_in_property_sets
RECURSIVE SearchPsets(_, _, _)
SearchPsets(obj, psets, request) ==
    IF psets = <<>> THEN <<>>
    ELSE LET pset == Head(psets)
         IN (IF _match_value(pset.name, request.query, request.match_mode,
                             request.case_sensitive)
             THEN <<SearchMatch(obj, "propertySets", pset.name, pset.name, <<pset.name>>)>>
             ELSE <<>>)
            \o SearchPsets(obj, Tail(psets), request)
_search_in_property_sets(obj, request) == SearchPsets(obj, obj.property_sets, request)

\* AdvancedSearchUseCase._search_in_properties: the name of a property and,
\* when it is a string, its value.
RECURSIVE SearchProps(_, _, _, _)
SearchProps(obj, pset, props, request) ==
    IF props = <<>> THEN <<>>
    ELSE LET prop == Head(props)
             path == pset.name \o <<".">> \o prop.name
         IN (IF _match_value(prop.name, request.query, request.match_mode,
                             request.case_sensitive)
             THEN <<SearchMatch(obj, "properties", path, prop.name, <<pset.name>>)>>
             ELSE <<>>)
            \o (IF prop.value # <<>>
                   /\ _match_value(prop.value[1], request.query, request.match_mode,
                                   request.case_sensitive)
                THEN <<SearchMatch(obj, "properties", path, prop.value[1], <<pset.name>>)>>
                ELSE <<>>)
            \o SearchProps(obj, pset, Tail(props), request)
RECURSIVE SearchPropsOfPsets(_, _, _)
SearchPropsOfPsets(obj, psets, request) ==
    IF psets = <<>> THEN <<>>
    ELSE SearchProps(obj, Head(psets), Head(psets).properties, request)
         \o SearchPropsOfPsets(obj, Tail(psets), request)
_search_in_properties(obj, request) == SearchPropsOfPsets(obj, obj.property_sets, request)

RECURSIVE ToMatches(_, _, _)
ToMatches(obj, field, results) ==
    IF results = <<>> THEN <<>>
    ELSE <<SearchMatch(obj, field, Head(results).path, Head(results).value, <<>>)>>
         \o ToMatches(obj, field, Tail(results))

\* AdvancedSearchUseCase._search_in_field
_search_in_field(obj, field, request) ==
    IF field = "properties" THEN _search_in_properties(obj, request)
    ELSE IF field = "propertySets" THEN _search_in_property_sets(obj, request)
    ELSE LET field_value == _get_field_value(obj, field)
         IN IF field_value = NoneValue THEN <<>>
            ELSE ToMatches(obj, field,
                           _search_in_value(field_value, request.query, request.match_mode,
                                            request.case_sensitive, <<field>>))

InSeq(x, seq) == \E k \in DOMAIN seq : seq[k] = x

\* AdvancedSearchUseCase._determine_search_fields
_determine_search_fields(search_fields) ==
    IF InSeq("all", search_fields) THEN <<"name", "domain", "description">>
    ELSE search_fields

\* AdvancedSearchUseCase._needs_detail_object
detail_fields ==
    {"property_sets", "propertySets", "properties", "relationships", "classifications",
     "description"}
_needs_detail_object(search_fields, level) ==
    /\ \/ InSeq("all", search_fields)
       \/ \E k \in DOMAIN search_fields : search_fields[k] \in detail_fields
    /\ ~has_property_sets(level)

\* The search loops of AdvancedSearchUseCase.execute: every object, and for
\* every object every field, in order.
RECURSIVE SearchFields(_, _, _)
SearchFields(obj, fields, request) ==
    IF fields = <<>> THEN <<>>
    ELSE _search_in_field(obj, Head(fields), request) \o SearchFields(obj, Tail(fields), request)
RECURSIVE SearchObjects(_, _)
SearchObjects(objects, request) ==
    IF objects = <<>> THEN <<>>
    ELSE SearchFields(CatalogObject(Head(objects).id, Head(objects).level),
                      _determine_search_fields(request.search_fields), request)
         \o SearchObjects(Tail(objects), request)

\* The loops of SearchPropertiesUseCase.execute: the properties of the
\* detail objects whose lower-cased name contains the lower-cased query.
RECURSIVE PropertyMatches(_, _, _, _)
PropertyMatches(obj, pset, props, query_lower) ==
    IF props = <<>> THEN <<>>
    ELSE (IF Contains(Lower(Head(props).name), query_lower)
          THEN <<[property |-> Head(props), object_id |-> obj.id,
                  object_name |-> obj.name, property_set_name |-> pset.name]>>
          ELSE <<>>)
         \o PropertyMatches(obj, pset, Tail(props), query_lower)
RECURSIVE PropertyMatchesOfPsets(_, _, _)
PropertyMatchesOfPsets(obj, psets, query_lower) ==
    IF psets = <<>> THEN <<>>
    ELSE PropertyMatches(obj, Head(psets), Head(psets).properties, query_lower)
         \o PropertyMatchesOfPsets(obj, Tail(psets), query_lower)
RECURSIVE SearchPropertiesOf(_, _)
SearchPropertiesOf(objects, query) ==
    IF objects = <<>> THEN <<>>
    ELSE LET obj == CatalogObject(Head(objects).id, Head(objects).level)
         IN (IF ~has_property_sets(Head(objects).level) THEN <<>>
             ELSE PropertyMatchesOfPsets(obj, obj.property_sets, Lower(query)))
            \o SearchPropertiesOf(Tail(objects), query)

\* total_matches = len(matches), taken before the limit is applied.
CountAfterLimit(matches, limit) ==
    IF limit # <<>> THEN Len(PySliceTo(matches, limit[1])) ELSE Len(matches)
TotalMatches(matches, limit) == Len(matches)

\* `if request.limit is not None: matches = matches[: request.limit]`
ApplyLimit(matches, limit) ==
    IF limit # <<>> THEN PySliceTo(matches, limit[1]) ELSE matches

SearchResponse(matches, limit) ==
    [matches |-> ApplyLimit(matches, limit), total_matches |-> TotalMatches(matches, limit)]

\* list_cached_objects as <<id, level>> records, in id order.
RECURSIVE CachedFrom(_, _)
CachedFrom(c, i) ==
    IF i > NObj THEN <<>>
    ELSE (IF c[i] # "none" THEN <<[id |-> i, level |-> c[i]]>> ELSE <<>>)
         \o CachedFrom(c, i + 1)
CachedObjects(c) == CachedFrom(c, 1)

\* response.objects of fetch_all_objects: the summaries of the listing.
ListingObjects == [k \in 1..NObj |-> [id |-> Listing[k], level |-> "summary"]]

\* _filter_by_domain on resolved objects.
RECURSIVE FilterObjects(_, _)
FilterObjects(objects, domain_filter) ==
    IF objects = <<>> THEN <<>>
    ELSE (IF Lower(DomainOf(Head(objects).id)) = Lower(domain_filter)
          THEN <<Head(objects)>> ELSE <<>>)
         \o FilterObjects(Tail(objects), domain_filter)

\* One search per behaviour: InitSearch ranges over the caches it may find.
SearchQuiet == spc = "idle"

\* execute from the resolved objects on: the domain filter, the choice of
\* the objects to upgrade, then either the search or the await of the
\* prefetch batch.
Resolve(objects) ==
    LET filtered == IF sreq.domain_filter # NoFilter
                    THEN FilterObjects(objects, sreq.domain_filter)
                    ELSE objects
        pending == [k \in DOMAIN filtered |->
                      IF _needs_detail_object(sreq.search_fields, filtered[k].level)
                      THEN "pending" ELSE "none"]
    IN /\ sobjects' = filtered
       /\ sdownloaded' = pending
       /\ IF \E k \in DOMAIN pending : pending[k] = "pending"
          THEN /\ spc' = "prefetch"
               /\ UNCHANGED <<sresult, sresp>>
          ELSE /\ spc' = "returned"
               /\ sresult' = filtered
               /\ sresp' = SearchResponse(SearchObjects(filtered, sreq), sreq.limit)

\* AdvancedSearchUseCase.execute up to its first await: the listing call of
\* _ensure_cache_fresh, or without a cache the one of _get_objects.
AdvancedSearchCall(request) ==
    /\ SearchQuiet
    /\ sop' = "advanced"
    /\ sreq' = request
    /\ spc' = IF cachePresent THEN "fresh_check" ELSE "get_objects"
    /\ sobjects' = <<>>
    /\ sdownloaded' = <<>>
    /\ sresult' = <<>>
    /\ sresp' = NoSearchResponse
    /\ UNCHANGED <<queryVars, groupVars, srcRelease, cacheVars, batchVars>>

\* The listing call of _ensure_cache_fresh raises: execute raises.
FreshCheckFails ==
    /\ sop = "advanced"
    /\ spc = "fresh_check"
    /\ spc' = "raised"
    /\ UNCHANGED <<queryVars, groupVars, srcRelease, cacheVars, batchVars, sop, sreq, sobjects,
                   sdownloaded, sresult, sresp>>

\* The listing call of _ensure_cache_fresh returns: a stale cache is
\* refreshed; then _get_objects takes the cached objects, or awaits a
\* second listing call when the cache is empty.
FreshCheckReturns ==
    /\ sop = "advanced"
    /\ spc = "fresh_check"
    /\ EnsureFresh
    /\ IF CachedObjects(cache') # <<>>
       THEN Resolve(CachedObjects(cache'))
       ELSE /\ spc' = "get_objects"
            /\ UNCHANGED <<sobjects, sdownloaded, sresult, sresp>>
    /\ UNCHANGED <<queryVars, groupVars, srcRelease, batchVars, sop, sreq>>

\* The listing call of _get_objects raises: execute raises.
GetObjectsFails ==
    /\ spc = "get_objects"
    /\ spc' = "raised"
    /\ UNCHANGED <<queryVars, groupVars, srcRelease, cacheVars, batchVars, sop, sreq, sobjects,
                   sdownloaded, sresult, sresp>>

\* The listing call of _get_objects returns the summaries.
GetObjectsReturns ==
    /\ sop = "advanced"
    /\ spc = "get_objects"
    /\ Resolve(ListingObjects)
    /\ UNCHANGED <<queryVars, groupVars, srcRelease, cacheVars, batchVars, sop, sreq>>

\* _ensure_detail_object: the fetch returns, the detail object is saved.
PrefetchReturns(idx) ==
    /\ spc = "prefetch"
    /\ idx \in DOMAIN sdownloaded
    /\ sdownloaded[idx] = "pending"
    /\ sdownloaded' = [sdownloaded EXCEPT ![idx] = "detail"]
    /\ IF cachePresent
       THEN SaveDetail(sobjects[idx].id)
       ELSE UNCHANGED cacheVars
    /\ UNCHANGED <<queryVars, groupVars, srcRelease, batchVars, sop, spc, sreq, sobjects, sresult, sresp>>

\* _ensure_detail_object: the fetch raises, the original object is kept.
PrefetchFailureRaises(idx) ==
    /\ spc = "prefetch"
    /\ idx \in DOMAIN sdownloaded
    /\ sdownloaded[idx] = "pending"
    /\ sdownloaded' = [sdownloaded EXCEPT ![idx] = "failed"]
    /\ spc' = "raised"
    /\ UNCHANGED <<queryVars, groupVars, srcRelease, cacheVars, batchVars, sop, sreq, sobjects,
                   sresult, sresp>>
PrefetchFails(idx) ==
    /\ spc = "prefetch"
    /\ idx \in DOMAIN sdownloaded
    /\ sdownloaded[idx] = "pending"
    /\ sdownloaded' = [sdownloaded EXCEPT ![idx] = "failed"]
    /\ UNCHANGED <<queryVars, groupVars, srcRelease, cacheVars, batchVars, sop, spc, sreq, sobjects,
                   sresult, sresp>>

\* gather of _batch_ensure_details returns: the upgraded objects replace
\* the originals by index, the objects are searched, the limit is applied.
PrefetchGather ==
    /\ spc = "prefetch"
    /\ \A k \in DOMAIN sdownloaded : sdownloaded[k] # "pending"
    /\ LET result == [k \in DOMAIN sobjects |->
                        IF sdownloaded[k] = "detail"
                        THEN [id |-> sobjects[k].id, level |-> "detail"]
                        ELSE sobjects[k]]
       IN /\ sresult' = result
          /\ sresp' = SearchResponse(SearchObjects(result, sreq), sreq.limit)
    /\ spc' = "returned"
    /\ UNCHANGED <<queryVars, groupVars, srcRelease, cacheVars, batchVars, sop, sreq, sobjects, sdownloaded>>

\* SearchPropertiesUseCase.execute: the cached objects are searched at
\* once; with no cache or an empty one the listing is awaited first.
SearchPropertiesCall(query, limit) ==
    /\ SearchQuiet
    /\ sop' = "properties"
    /\ sreq' = [NoSearch EXCEPT !.query = query, !.limit = limit]
    /\ sdownloaded' = <<>>
    /\ IF cachePresent /\ CachedObjects(cache) # <<>>
       THEN /\ spc' = "returned"
            /\ sobjects' = CachedObjects(cache)
            /\ sresult' = CachedObjects(cache)
            /\ sresp' = SearchResponse(SearchPropertiesOf(CachedObjects(cache), query), limit)
       ELSE /\ spc' = "get_objects"
            /\ sobjects' = <<>>
            /\ sresult' = <<>>
            /\ sresp' = NoSearchResponse
    /\ UNCHANGED <<queryVars, groupVars, srcRelease, cacheVars, batchVars>>

\* The listing call of SearchPropertiesUseCase._get_objects returns.
PropertiesListingReturns ==
    /\ sop = "properties"
    /\ spc = "get_objects"
    /\ spc' = "returned"
    /\ sobjects' = ListingObjects
    /\ sresult' = ListingObjects
    /\ sresp' = SearchResponse(SearchPropertiesOf(ListingObjects, sreq.query), sreq.limit)
    /\ UNCHANGED <<queryVars, groupVars, srcRelease, cacheVars, batchVars, sop, sreq, sdownloaded>>

SearchRequests ==
    [search_fields : SearchFieldLists, query : Queries,
     domain_filter : {NoFilter, <<"b", "r">>}, match_mode : MatchModes,
     case_sensitive : BOOLEAN, limit : Limits]

\* The cache a search may find: any records under the current release tag
\* or under none, or no cache at all.
InitSearch ==
    /\ srcRelease = 1
    /\ cachePresent \in BOOLEAN
    /\ cache \in [Ids -> {"none", "summary", "detail"}]
    /\ cachePresent = FALSE => cache = [i \in Ids |-> "none"]
    /\ cacheRelease \in (IF cachePresent THEN {0, 1} ELSE {0})
    /\ cacheCount = (IF cacheRelease = 0 THEN 0 ELSE NObj)
    /\ cacheAge = 0
    /\ guarded = FALSE
    /\ op = "none"
    /\ pc = "idle"
    /\ req = NoReq
    /\ response = NoResponse
    /\ all_objects = <<>>
    /\ to_download = <<>>
    /\ already_cached = 0
    /\ semaphore = 0
    /\ tpc = [i \in Ids |-> "none"]
    /\ attempt = [i \in Ids |-> 0]
    /\ successful = 0
    /\ failed = 0
    /\ stats = NoStats
    /\ fetchCalls = [i \in Ids |-> 0]
    /\ sleeps = [i \in Ids |-> <<>>]
    /\ lastError = [i \in Ids |-> "none"]
    /\ saved = {}
    /\ cacheAtStart = [i \in Ids |-> "none"]
    /\ sop = "none"
    /\ spc = "idle"
    /\ sreq = NoSearch
    /\ sobjects = <<>>
    /\ sdownloaded = <<>>
    /\ sresult = <<>>
    /\ sresp = NoSearchResponse
    /\ QueryIdle
    /\ gcatalog = [i \in Ids |-> DefaultContent]
    /\ GroupIdle

NextSearch ==
    \/ \E request \in SearchRequests : AdvancedSearchCall(request)
    \/ FreshCheckFails
    \/ FreshCheckReturns
    \/ GetObjectsFails
    \/ GetObjectsReturns
    \/ \E idx \in 1..NObj : PrefetchReturns(idx)
    \/ \E idx \in 1..NObj : PrefetchFails(idx)
    \/ PrefetchGather
    \/ \E query \in Queries, limit \in Limits : SearchPropertiesCall(query, limit)
    \/ PropertiesListingReturns

SpecSearch == InitSearch /\ [][NextSearch]_vars

\* ------------------------------------------------------------------- query
\* getObject and getCacheCoverage: one call is followed from a cache with
\* arbitrary contents.
MaxAge == 2        \* hours the clock is followed after a refresh

QueryQuiet == qpc = "idle"
QuerySettled == qpc \in {"idle", "returned", "raised"}

\* GetObjectUseCase.execute up to its await: a cached detail object is
\* returned at once, anything else goes to the catalog.
GetObjectCall(object_id) ==
    /\ QueryQuiet
    /\ qop' = "get_object"
    /\ qreq' = [object_id |-> object_id, domain_filter |-> NoFilter]
    /\ IF cachePresent /\ cache[object_id] # "none"
          /\ has_property_sets(cache[object_id])
       THEN /\ qresp' = [object |-> object_id, level |-> cache[object_id],
                         from_cache |-> TRUE, stats |-> NoCoverage]
            /\ qpc' = "returned"
            /\ qcalls' = 0
       ELSE /\ qresp' = NoQueryResponse
            /\ qpc' = "fetching"
            /\ qcalls' = 1
    /\ UNCHANGED <<qerr, qfetch, qsaved, qlangs, srcRelease, cacheVars, batchVars,
                   searchVars, groupVars>>

\* fetch_object_by_id returns: the object is saved and returned.
GetObjectFetchReturns ==
    /\ qop = "get_object"
    /\ qpc = "fetching"
    /\ cache' = IF cachePresent
                THEN save_object(cache, qreq.object_id, "detail")
                ELSE cache
    /\ qresp' = [object |-> qreq.object_id, level |-> "detail",
                 from_cache |-> FALSE, stats |-> NoCoverage]
    /\ qpc' = "returned"
    /\ qfetch' = "returned"
    /\ qsaved' = IF cachePresent THEN qsaved \cup {qreq.object_id} ELSE qsaved
    /\ UNCHANGED <<cachePresent, cacheRelease, cacheCount, cacheAge, guarded>>
    /\ UNCHANGED <<qop, qreq, qerr, qcalls, qlangs, srcRelease, batchVars, searchVars,
                   groupVars>>

\* The error handler of getObject: a caught error is answered from the
\* cache when the cache holds a record for the id.
FallsBackNever(error, record) == FALSE
FallsBack(error, record) == record # "none"

\* fetch_object_by_id raises: any cached record is the fallback, otherwise
\* the error is raised again.
GetObjectFetchRaises(error) ==
    /\ qop = "get_object"
    /\ qpc = "fetching"
    /\ IF cachePresent /\ FallsBack(error, cache[qreq.object_id])
       THEN /\ qresp' = [object |-> qreq.object_id,
                         level |-> cache[qreq.object_id],
                         from_cache |-> TRUE, stats |-> NoCoverage]
            /\ qpc' = "returned"
            /\ UNCHANGED qerr
       ELSE /\ qerr' = error
            /\ qpc' = "raised"
            /\ UNCHANGED qresp
    /\ qfetch' = error
    /\ UNCHANGED <<qop, qreq, qcalls, qsaved, qlangs, srcRelease, cacheVars, batchVars,
                   searchVars, groupVars>>

\* The ids of the listing left by the domain filter of getCacheCoverage.
RECURSIVE CoverageIds(_, _)
CoverageIds(objects, domain_filter) ==
    IF domain_filter = NoFilter THEN objects
    ELSE IF objects = <<>> THEN <<>>
    ELSE IF Lower(DomainOf(Head(objects))) = Lower(domain_filter)
         THEN <<Head(objects)>> \o CoverageIds(Tail(objects), domain_filter)
         ELSE CoverageIds(Tail(objects), domain_filter)

\* The members of a list of ids that satisfy a test on the cache record.
RECURSIVE IdsWith(_, _)
IdsWith(ids, levels) ==
    IF ids = <<>> THEN <<>>
    ELSE IF cache[Head(ids)] \in levels
         THEN <<Head(ids)>> \o IdsWith(Tail(ids), levels)
         ELSE IdsWith(Tail(ids), levels)

\* int((n / 20) * 0.5 * 20) if n > 0 else None
EstimatedTime(n) == IF n > 0 THEN <<n \div 2>> ELSE <<>>

\* The statistics built without a cache: everything is missing.
CountsNothingMissing(all_object_ids) == 0
NotCachedWithoutCache(all_object_ids) == Len(all_object_ids)

CoverageWithoutCache(all_object_ids) ==
    [total_objects |-> Len(all_object_ids),
     cached_with_details |-> 0,
     cached_summary_only |-> 0,
     not_cached |-> NotCachedWithoutCache(all_object_ids),
     coverage_percentage |-> [num |-> 0, den |-> 1],
     estimated_download_time_seconds |-> EstimatedTime(Len(all_object_ids)),
     missing_object_ids |-> all_object_ids]

\* cached_with_details / total_objects * 100, as a fraction; 0.0 for an
\* empty listing.
Percentage(part, total) ==
    IF total > 0 THEN [num |-> part * 100, den |-> total]
    ELSE [num |-> 0, den |-> 1]

\* get_cache_coverage of the cache: every listed id falls in one bucket.
get_cache_coverage(all_object_ids) ==
    LET details == IdsWith(all_object_ids, {"detail"})
        summaries == IdsWith(all_object_ids, {"summary"})
        missing == IdsWith(all_object_ids, {"none"})
    IN [total_objects |-> Len(all_object_ids),
        cached_with_details |-> Len(details),
        cached_summary_only |-> Len(summaries),
        not_cached |-> Len(missing),
        coverage_percentage |-> Percentage(Len(details), Len(all_object_ids)),
        estimated_download_time_seconds |->
            EstimatedTime(Len(summaries) + Len(missing)),
        missing_object_ids |-> missing]

\* GetCacheCoverageUseCase.execute up to its await (fetch_all_objects).
CoverageCall(domain_filter) ==
    /\ QueryQuiet
    /\ qop' = "coverage"
    /\ qreq' = [object_id |-> 0, domain_filter |-> domain_filter]
    /\ qpc' = "listing"
    /\ qcalls' = 1
    /\ UNCHANGED <<qresp, qerr, qfetch, qsaved, qlangs, srcRelease, cacheVars,
                   batchVars, searchVars, groupVars>>

\* The listing cannot be fetched: the error reaches the caller.
CoverageListingFails ==
    /\ qop = "coverage"
    /\ qpc = "listing"
    /\ qerr' = "SourceError"
    /\ qfetch' = "SourceError"
    /\ qpc' = "raised"
    /\ UNCHANGED <<qop, qreq, qresp, qcalls, qsaved, qlangs, srcRelease, cacheVars,
                   batchVars, searchVars, groupVars>>

\* The listing arrives: the statistics are computed and returned.
CoverageListingReturns ==
    /\ qop = "coverage"
    /\ qpc = "listing"
    /\ LET all_object_ids == CoverageIds(Listing, qreq.domain_filter)
       IN qresp' = [object |-> 0, level |-> "none", from_cache |-> FALSE,
                    stats |-> IF cachePresent
                              THEN get_cache_coverage(all_object_ids)
                              ELSE CoverageWithoutCache(all_object_ids)]
    /\ qfetch' = "returned"
    /\ qpc' = "returned"
    /\ UNCHANGED <<qop, qreq, qerr, qcalls, qsaved, qlangs, srcRelease, cacheVars,
                   batchVars, searchVars, groupVars>>

\* An hour passes.
Tick ==
    /\ cacheAge < MaxAge
    /\ cacheAge' = cacheAge + 1
    /\ UNCHANGED <<cachePresent, cache, cacheRelease, cacheCount, guarded>>
    /\ UNCHANGED <<srcRelease, batchVars, searchVars, queryVars, groupVars>>

\* ------------------------------------------------------------ listObjects
Languages == {"de", "en"}
\* The language of a fetch_all_objects call that passes none.
DefaultLanguage == "de"

\* ListObjectsUseCase._filter_by_search on the ids of the listing.
RECURSIVE _filter_by_search(_, _)
_filter_by_search(objects, search_query) ==
    IF objects = <<>> THEN <<>>
    ELSE (IF Contains(Lower(NameOf(Head(objects))), Lower(search_query))
          THEN <<Head(objects)>> ELSE <<>>)
         \o _filter_by_search(Tail(objects), search_query)

\* Python slice seq[start:stop]: a negative bound counts from the end,
\* both bounds are clamped to the list.
PySlice(seq, start, stop) ==
    LET n == Len(seq)
        Clamp(x) == IF x < 0 THEN (IF x + n < 0 THEN 0 ELSE x + n)
                    ELSE (IF x > n THEN n ELSE x)
    IN IF Clamp(start) < Clamp(stop)
       THEN SubSeq(seq, Clamp(start) + 1, Clamp(stop))
       ELSE <<>>

\* ListObjectsUseCase._paginate
LimitAsStop(objects, limit, offset) == PySlice(objects, offset, limit)
_paginate(objects, limit, offset) == PySlice(objects, offset, offset + limit)

ListRequests ==
    [domain_filter : {NoFilter, <<"b", "R">>}, search_query : {<<>>, <<"b", "r">>, <<"T">>},
     language : Languages, limit : (-1)..MaxLimit, offset : (-1)..MaxLimit]

\* ListObjectsUseCase.execute up to its first await: with a cache the
\* listing call of _ensure_cache_fresh, which passes no language; without
\* one the listing call of execute.
ListObjectsCall(request) ==
    /\ QueryQuiet
    /\ qop' = "list_objects"
    /\ qreq' = request
    /\ qresp' = [objects |-> <<>>, total |-> -1]
    /\ qcalls' = 1
    /\ IF cachePresent
       THEN /\ qpc' = "fresh_check"
            /\ qlangs' = {DefaultLanguage}
       ELSE /\ qpc' = "listing"
            /\ qlangs' = {request.language}
    /\ UNCHANGED <<qerr, qfetch, qsaved, srcRelease, cacheVars, batchVars,
                   searchVars, groupVars>>

\* The listing of _ensure_cache_fresh returns: a stale cache is refreshed,
\* then execute awaits the listing in the language of the request.
ListFreshCheckReturns ==
    /\ qop = "list_objects"
    /\ qpc = "fresh_check"
    /\ EnsureFresh
    /\ qpc' = "listing"
    /\ qcalls' = qcalls + 1
    /\ qlangs' = qlangs \cup {qreq.language}
    /\ UNCHANGED <<qop, qreq, qresp, qerr, qfetch, qsaved, srcRelease, batchVars,
                   searchVars, groupVars>>

\* Either listing call raises: execute raises.
ListCallFails ==
    /\ qop = "list_objects"
    /\ qpc \in {"fresh_check", "listing"}
    /\ qerr' = "SourceError"
    /\ qfetch' = "SourceError"
    /\ qpc' = "raised"
    /\ UNCHANGED <<qop, qreq, qresp, qcalls, qsaved, qlangs, srcRelease, cacheVars,
                   batchVars, searchVars, groupVars>>

\* The listing of execute returns: domain filter, name filter, count, page.
ListListingReturns ==
    /\ qop = "list_objects"
    /\ qpc = "listing"
    /\ LET by_domain == IF qreq.domain_filter # NoFilter
                        THEN _filter_by_domain(Listing, qreq.domain_filter)
                        ELSE Listing
           objects == IF qreq.search_query # <<>>
                      THEN _filter_by_search(by_domain, qreq.search_query)
                      ELSE by_domain
       IN qresp' = [objects |-> _paginate(objects, qreq.limit, qreq.offset),
                    total |-> Len(objects)]
    /\ qfetch' = "returned"
    /\ qpc' = "returned"
    /\ UNCHANGED <<qop, qreq, qerr, qcalls, qsaved, qlangs, srcRelease, cacheVars,
                   batchVars, searchVars, groupVars>>

\* ------------------------------------------------------------- SBB client
\* What one client.get / raise_for_status / json round can end in: a
\* response, a 404 status, another error status, a timeout, or a network
\* error that is neither (httpx.NetworkError).
RequestOutcomes == {"ok", "404", "http", "timeout", "network"}

\* SbbApiClient._request_with_retry up to the first client.get; its
\* max_retries has the default of the bulk fetcher, 3.
RequestCall ==
    /\ QueryQuiet
    /\ qop' = "request"
    /\ qpc' = "attempt"
    /\ qcalls' = 0
    /\ UNCHANGED <<qreq, qresp, qerr, qfetch, qsaved, qlangs, srcRelease, cacheVars,
                   batchVars, searchVars, groupVars>>

\* One round of the loop: the response is returned; a 404 raises
\* ObjectNotFoundError; another error status or a timeout sleeps and goes
\* round again, or after the last round raises CatalogError; an exception
\* that no except clause names leaves the function as it is.
RequestAttempt(outcome) ==
    /\ qop = "request"
    /\ qpc = "attempt"
    /\ qcalls' = qcalls + 1
    /\ qfetch' = outcome
    /\ CASE outcome = "ok" ->
              /\ qpc' = "returned"
              /\ UNCHANGED qerr
         [] outcome = "404" ->
              /\ qpc' = "raised"
              /\ qerr' = "ObjectNotFoundError"
         [] outcome \in {"http", "timeout"} ->
              IF qcalls < max_retries - 1
              THEN /\ qpc' = "sleeping"
                   /\ UNCHANGED qerr
              ELSE /\ qpc' = "raised"
                   /\ qerr' = "CatalogError"
         [] OTHER ->
              /\ qpc' = "raised"
              /\ qerr' = "httpx.NetworkError"
    /\ UNCHANGED <<qop, qreq, qresp, qsaved, qlangs, srcRelease, cacheVars,
                   batchVars, searchVars, groupVars>>

\* asyncio.sleep of the retry loop returns.
RequestWake ==
    /\ qop = "request"
    /\ qpc = "sleeping"
    /\ qpc' = "attempt"
    /\ UNCHANGED <<qop, qreq, qresp, qerr, qcalls, qfetch, qsaved, qlangs,
                   srcRelease, cacheVars, batchVars, searchVars, groupVars>>

\* The caller has taken the answer of a query: the next one may start.
QueryDone ==
    /\ qpc \in {"returned", "raised"}
    /\ qop' = "none"
    /\ qpc' = "idle"
    /\ qreq' = NoQuery
    /\ qresp' = NoQueryResponse
    /\ qerr' = "none"
    /\ qcalls' = 0
    /\ qfetch' = "none"
    /\ qlangs' = {}
    /\ UNCHANGED <<qsaved, srcRelease, cacheVars, batchVars, searchVars, groupVars>>

InitQuery ==
    /\ srcRelease \in 1..MaxRelease
    /\ cachePresent \in BOOLEAN
    /\ cache \in (IF cachePresent
                  THEN [Ids -> {"none", "summary", "detail"}]
                  ELSE {[i \in Ids |-> "none"]})
    /\ cacheRelease \in (IF cachePresent THEN 0..srcRelease ELSE {0})
    /\ cacheCount = (IF cacheRelease = 0 THEN 0 ELSE NObj)
    /\ cacheAge = 0
    /\ guarded = FALSE
    /\ op = "none"
    /\ pc = "idle"
    /\ req = NoReq
    /\ response = NoResponse
    /\ all_objects = <<>>
    /\ to_download = <<>>
    /\ already_cached = 0
    /\ semaphore = 0
    /\ tpc = [i \in Ids |-> "none"]
    /\ attempt = [i \in Ids |-> 0]
    /\ successful = 0
    /\ failed = 0
    /\ stats = NoStats
    /\ fetchCalls = [i \in Ids |-> 0]
    /\ sleeps = [i \in Ids |-> <<>>]
    /\ lastError = [i \in Ids |-> "none"]
    /\ saved = {}
    /\ cacheAtStart = [i \in Ids |-> "none"]
    /\ sop = "none"
    /\ spc = "idle"
    /\ sreq = NoSearch
    /\ sobjects = <<>>
    /\ sdownloaded = <<>>
    /\ sresult = <<>>
    /\ sresp = NoSearchResponse
    /\ QueryIdle
    /\ gcatalog = [i \in Ids |-> DefaultContent]
    /\ GroupIdle

NextQuery ==
    \/ \E object_id \in Ids : GetObjectCall(object_id)
    \/ GetObjectFetchReturns
    \/ \E error \in {"SourceError", "NotFound"} : GetObjectFetchRaises(error)
    \/ \E domain_filter \in DomainFilters : CoverageCall(domain_filter)
    \/ CoverageListingFails
    \/ CoverageListingReturns
    \/ \E request \in ListRequests : ListObjectsCall(request)
    \/ ListFreshCheckReturns
    \/ ListCallFails
    \/ ListListingReturns
    \/ RequestCall
    \/ \E outcome \in RequestOutcomes : RequestAttempt(outcome)
    \/ RequestWake
    \/ QueryDone
    \/ QuerySettled /\ Tick
    \/ QuerySettled /\ ListObjectsEnsureFresh
    \/ QuerySettled /\ PublishRelease

SpecQuery == InitQuery /\ [][NextQuery]_vars

\* ---------------------------------------------------------------- grouping
\* groupObjects.  A Python dict is a sequence of entries [k, v] with distinct
\* keys, in insertion order; a value is a list of objects or a nested dict.
MaxGroupIds == 2   \* longest list of object ids a request carries

GroupFields == {"domain", "ifcClass", "propertySet", "name"}
All == <<"a", "l", "l">>
NoIfcClass == <<"N", "o", " ", "I", "F", "C", " ", "C", "l", "a", "s", "s">>

\* The object of an id as the cache or the catalog holds it.
GroupObject(i, level) ==
    [id |-> i,
     name |-> gcatalog[i].name,
     domain |-> gcatalog[i].domain,
     classifications |-> gcatalog[i].classifications,
     property_sets |-> IF level = "detail" THEN gcatalog[i].property_sets ELSE <<>>]

ListOf(items) == [t |-> "list", items |-> items]
DictOf(d) == [t |-> "dict", d |-> d]

HasKey(d, key) == \E n \in DOMAIN d : d[n].k = key
KeyIndex(d, key) == CHOOSE n \in DOMAIN d : d[n].k = key

\* groups[key].append(obj) on a defaultdict(list)
AppendTo(d, key, obj) ==
    IF HasKey(d, key)
    THEN [d EXCEPT ![KeyIndex(d, key)].v = ListOf(Append(@.items, obj))]
    ELSE Append(d, [k |-> key, v |-> ListOf(<<obj>>)])

\* counts[key] = value
SetItem(d, key, value) ==
    IF HasKey(d, key)
    THEN [d EXCEPT ![KeyIndex(d, key)].v = value]
    ELSE Append(d, [k |-> key, v |-> value])

\* GroupObjectsUseCase._get_field_value: <<>> stands for None.
GroupFieldValue(obj, field) ==
    IF field = "domain" THEN <<obj.domain>>
    ELSE IF field = "name" THEN <<obj.name>>
    ELSE IF field = "id" THEN <<<<IndexStr(obj.id)>>>>
    ELSE IF field = "ifcClass"
         THEN IF obj.classifications # <<>>
              THEN <<obj.classifications[1]>>
              ELSE <<NoIfcClass>>
    ELSE <<>>

\* `if value:` on a str | None
Truthy(value) == value # <<>> /\ value[1] # <<>>

\* for pset in obj.property_sets: groups[pset.name].append(obj)
RECURSIVE AppendToEach(_, _, _)
AppendToEach(d, names, obj) ==
    IF names = <<>> THEN d
    ELSE AppendToEach(AppendTo(d, Head(names), obj), Tail(names), obj)

\* The loop of _group_by_single over the objects.
RECURSIVE GroupInto(_, _, _)
GroupInto(d, objects, field) ==
    IF objects = <<>> THEN d
    ELSE LET obj == Head(objects)
             value == GroupFieldValue(obj, field)
             next == IF field = "propertySet"
                     THEN AppendToEach(d, obj.property_sets, obj)
                     ELSE IF Truthy(value) THEN AppendTo(d, value[1], obj)
                     ELSE d
         IN GroupInto(next, Tail(objects), field)

_group_by_single(objects, field) == GroupInto(<<>>, objects, field)

\* _group_by_multiple: the first field buckets the objects, the remaining
\* fields are applied within each bucket.
StopsAtFirstField(objects, fields) ==
    IF fields = <<>> THEN <<[k |-> All, v |-> ListOf(objects)]>>
    ELSE _group_by_single(objects, Head(fields))
RECURSIVE _group_by_multiple(_, _)
_group_by_multiple(objects, fields) ==
    IF fields = <<>> THEN <<[k |-> All, v |-> ListOf(objects)]>>
    ELSE LET first_level_groups == _group_by_single(objects, Head(fields))
             remaining_fields == Tail(fields)
         IN IF remaining_fields = <<>> THEN first_level_groups
            ELSE [n \in DOMAIN first_level_groups |->
                    [k |-> first_level_groups[n].k,
                     v |-> DictOf(_group_by_multiple(first_level_groups[n].v.items,
                                                     remaining_fields))]]

\* Order of str by code point, on the characters the keys are made of.
Alphabet == <<" ", "/", "0", "1", "2", "3", "4", "5", "C", "F", "I", "N", "P",
              "Q", "a", "b", "c", "l", "o", "s">>
CharCode(c) == CHOOSE n \in DOMAIN Alphabet : Alphabet[n] = c
RECURSIVE StrLess(_, _)
StrLess(a, b) ==
    IF b = <<>> THEN FALSE
    ELSE IF a = <<>> THEN TRUE
    ELSE IF CharCode(Head(a)) # CharCode(Head(b))
         THEN CharCode(Head(a)) < CharCode(Head(b))
    ELSE StrLess(Tail(a), Tail(b))

\* get_sort_key: the field value, or "" when there is none.
get_sort_key(obj, sort_by) ==
    LET value == GroupFieldValue(obj, sort_by)
    IN IF Truthy(value) THEN value[1] ELSE <<>>

\* sorted(objects, key=get_sort_key, reverse=reverse): a stable sort.
RECURSIVE InsertSorted(_, _, _, _)
InsertSorted(sorted, obj, sort_by, reverse) ==
    IF sorted = <<>> THEN <<obj>>
    ELSE LET before == IF reverse
                       THEN ~StrLess(get_sort_key(Head(sorted), sort_by),
                                     get_sort_key(obj, sort_by))
                       ELSE ~StrLess(get_sort_key(obj, sort_by),
                                     get_sort_key(Head(sorted), sort_by))
         IN IF before
            THEN <<Head(sorted)>> \o InsertSorted(Tail(sorted), obj, sort_by, reverse)
            ELSE <<obj>> \o sorted

RECURSIVE SortedFrom(_, _, _, _)
SortedFrom(sorted, objects, sort_by, reverse) ==
    IF objects = <<>> THEN sorted
    ELSE SortedFrom(InsertSorted(sorted, Head(objects), sort_by, reverse),
                    Tail(objects), sort_by, reverse)

\* _sort_objects: sort_by is <<>> for None.
_sort_objects(objects, sort_by, order) ==
    IF sort_by = <<>> THEN objects
    ELSE SortedFrom(<<>>, objects, sort_by[1], order = "desc")

RECURSIVE _sort_groups(_, _, _)
_sort_groups(groups, sort_by, order) ==
    [n \in DOMAIN groups |->
        [k |-> groups[n].k,
         v |-> IF groups[n].v.t = "list"
               THEN ListOf(_sort_objects(groups[n].v.items, sort_by, order))
               ELSE DictOf(_sort_groups(groups[n].v.d, sort_by, order))]]

\* f"{prefix}/{key}" if prefix else key
NewPrefix(prefix, key) == IF prefix # <<>> THEN prefix \o <<"/">> \o key ELSE key

\* count_recursive of _calculate_counts, on the entries of a dict.
RECURSIVE CountEntries(_, _, _)
CountEntries(counts, prefix, entries) ==
    IF entries = <<>> THEN counts
    ELSE LET new_prefix == NewPrefix(prefix, Head(entries).k)
             content == Head(entries).v
             next == IF content.t = "list"
                     THEN SetItem(counts, new_prefix, Len(content.items))
                     ELSE CountEntries(counts, new_prefix, content.d)
         IN CountEntries(next, prefix, Tail(entries))

_calculate_counts(groups) == CountEntries(<<>>, <<>>, groups)

\* execute after _fetch_objects: grouping, sorting and counting.
Grouped(objects, request) ==
    IF request.group_by = <<>>
    THEN [groups |-> <<[k |-> All,
                        v |-> ListOf(_sort_objects(objects, request.sort_by,
                                                   request.order))]>>,
          total_objects |-> Len(objects),
          group_counts |-> IF request.include_count
                           THEN <<[k |-> All, v |-> Len(objects)]>> ELSE <<>>,
          has_counts |-> request.include_count]
    ELSE LET grouped == IF request.is_list
                        THEN _group_by_multiple(objects, request.group_by)
                        ELSE _group_by_single(objects, request.group_by[1])
             groups == IF request.sort_by # <<>>
                       THEN _sort_groups(grouped, request.sort_by, request.order)
                       ELSE grouped
         IN [groups |-> groups,
             total_objects |-> Len(objects),
             group_counts |-> IF request.include_count
                              THEN _calculate_counts(groups) ELSE <<>>,
             has_counts |-> request.include_count]

\* The requests followed: no grouping, one field, or a list of fields.
FieldLists == {<<"domain">>, <<"name", "domain">>, <<"propertySet", "domain">>,
               <<"ifcClass", "name">>}
IdLists == UNION {[1..n -> Ids] : n \in 0..MaxGroupIds}
GroupRequests ==
    {[object_ids |-> ids, group_by |-> g.group_by, is_list |-> g.is_list,
      sort_by |-> o.sort_by, order |-> o.order, include_count |-> c] :
        ids \in IdLists,
        g \in {[group_by |-> <<>>, is_list |-> FALSE]}
              \cup {[group_by |-> <<f>>, is_list |-> FALSE] : f \in GroupFields}
              \cup {[group_by |-> fs, is_list |-> TRUE] : fs \in FieldLists},
        o \in {[sort_by |-> <<>>, order |-> "asc"],
               [sort_by |-> <<"name">>, order |-> "asc"],
               [sort_by |-> <<"name">>, order |-> "desc"]},
        c \in BOOLEAN}

\* The cache-first loop of _fetch_objects.
RECURSIVE CachedOf(_)
CachedOf(object_ids) ==
    IF object_ids = <<>> THEN <<>>
    ELSE (IF cache[Head(object_ids)] # "none"
          THEN <<GroupObject(Head(object_ids), cache[Head(object_ids)])>>
          ELSE <<>>) \o CachedOf(Tail(object_ids))

RECURSIVE FetchesSummaries(_)
FetchesSummaries(object_ids) ==
    IF object_ids = <<>> THEN <<>>
    ELSE (IF cache[Head(object_ids)] # "detail" THEN <<Head(object_ids)>> ELSE <<>>)
         \o FetchesSummaries(Tail(object_ids))

RECURSIVE MissingOf(_)
MissingOf(object_ids) ==
    IF object_ids = <<>> THEN <<>>
    ELSE (IF cache[Head(object_ids)] = "none" THEN <<Head(object_ids)>> ELSE <<>>)
         \o MissingOf(Tail(object_ids))

\* The results of gather that are not None, in the order of missing_ids.
RECURSIVE FetchedOf(_, _, _)
FetchedOf(missing_ids, outcome, n) ==
    IF n > Len(missing_ids) THEN <<>>
    ELSE (IF outcome[n] THEN <<missing_ids[n]>> ELSE <<>>)
         \o FetchedOf(missing_ids, outcome, n + 1)

\* cache.save_object(obj.id, obj) for every fetched object.
RECURSIVE SaveDetails(_, _)
SaveDetails(c, ids) ==
    IF ids = <<>> THEN c
    ELSE SaveDetails(save_object(c, Head(ids), "detail"), Tail(ids))

\* GroupObjectsUseCase.execute up to the gather of _fetch_objects; with
\* nothing to fetch it runs to its end.
GroupObjectsCall(request) ==
    /\ gpc = "idle"
    /\ greq' = request
    /\ LET cached_objects == IF cachePresent THEN CachedOf(request.object_ids)
                             ELSE <<>>
           missing_ids == IF cachePresent THEN MissingOf(request.object_ids)
                          ELSE request.object_ids
       IN /\ gcached' = cached_objects
          /\ gmissing' = missing_ids
          /\ IF missing_ids = <<>>
             THEN /\ gpc' = "returned"
                  /\ gresult' = Grouped(cached_objects, request)
             ELSE /\ gpc' = "fetching"
                  /\ UNCHANGED gresult
    /\ UNCHANGED <<gcatalog, srcRelease, cacheVars, batchVars, searchVars,
                   queryVars>>

\* gather returns: the fetched objects follow the cached ones and are
\* saved; then the objects are grouped, sorted and counted.
GroupFetchGather(outcome) ==
    /\ gpc = "fetching"
    /\ LET fetched == FetchedOf(gmissing, outcome, 1)
           objects == gcached \o [n \in DOMAIN fetched |->
                                    GroupObject(fetched[n], "detail")]
       IN /\ gcached' = objects
          /\ cache' = IF cachePresent THEN SaveDetails(cache, fetched) ELSE cache
          /\ gresult' = Grouped(objects, greq)
    /\ gpc' = "returned"
    /\ UNCHANGED <<cachePresent, cacheRelease, cacheCount, cacheAge, guarded>>
    /\ UNCHANGED <<gcatalog, greq, gmissing, srcRelease, batchVars, searchVars,
                   queryVars>>

\* No download, update or search has been started.
FetcherIdle ==
    /\ op = "none"
    /\ pc = "idle"
    /\ req = NoReq
    /\ response = NoResponse
    /\ all_objects = <<>>
    /\ to_download = <<>>
    /\ already_cached = 0
    /\ semaphore = 0
    /\ tpc = [i \in Ids |-> "none"]
    /\ attempt = [i \in Ids |-> 0]
    /\ successful = 0
    /\ failed = 0
    /\ stats = NoStats
    /\ fetchCalls = [i \in Ids |-> 0]
    /\ sleeps = [i \in Ids |-> <<>>]
    /\ lastError = [i \in Ids |-> "none"]
    /\ saved = {}
    /\ cacheAtStart = [i \in Ids |-> "none"]
    /\ sop = "none"
    /\ spc = "idle"
    /\ sreq = NoSearch
    /\ sobjects = <<>>
    /\ sdownloaded = <<>>
    /\ sresult = <<>>
    /\ sresp = NoSearchResponse

InitGroup ==
    /\ srcRelease = 1
    /\ cachePresent \in BOOLEAN
    /\ cache \in (IF cachePresent
                  THEN [Ids -> {"none", "summary", "detail"}]
                  ELSE {[i \in Ids |-> "none"]})
    /\ cacheRelease = 0
    /\ cacheCount = 0
    /\ cacheAge = 0
    /\ guarded = FALSE
    /\ FetcherIdle
    /\ QueryIdle
    /\ gcatalog \in [Ids -> GroupContents]
    /\ GroupIdle

NextGroup ==
    \/ \E request \in GroupRequests : GroupObjectsCall(request)
    \/ \E outcome \in [DOMAIN gmissing -> BOOLEAN] : GroupFetchGather(outcome)

SpecGroup == InitGroup /\ [][NextGroup]_vars

Next ==
    \/ \E df \in DomainFilters, mc \in -1..MaxConc : DownloadCall(df, mc)
    \/ \E df \in DomainFilters, fr \in BOOLEAN, mc \in -1..MaxConc : UpdateCall(df, fr, mc)
    \/ ListingFails
    \/ ListingReturns
    \/ \E i \in Ids : Acquire(i)
    \/ \E i \in Ids : FetchReturns(i)
    \/ \E i \in Ids, error \in {"SourceError", "NotFound"} : FetchRaises(i, error)
    \/ \E i \in Ids : Wake(i)
    \/ GatherReturns
    \/ PublishRelease
    \/ ListObjectsEnsureFresh
    \/ AdvancedSearchEnsureFresh
    \/ \E i \in Ids : GetObjectFetches(i)
    \/ \E i \in Ids : EnsureDetailObject(i)
    \/ \E i \in Ids : GroupObjectsFetches(i)
    \/ ClearCache

Spec == Init /\ [][Next]_vars

\* asyncio runs every ready coroutine: a task that can enter the semaphore
\* enters it, an awaited sleep ends, gather returns once all tasks have
\* finished; every awaited fetch_object_by_id call returns or raises.
FetchCompletes(i) ==
    FetchReturns(i) \/ \E error \in {"SourceError", "NotFound"} : FetchRaises(i, error)

Fairness ==
    /\ WF_vars(ListingReturns)
    /\ WF_vars(\E i \in Ids : Acquire(i))
    /\ \A i \in Ids : WF_vars(FetchCompletes(i))
    /\ \A i \in Ids : WF_vars(Wake(i))
    /\ WF_vars(GatherReturns)

SpecFair == Init /\ [][Next]_vars /\ Fairness

\* ------------------------------------------------------------------ claims
Batch == op \in {"download", "update"}
InFlight == {i \in Ids : tpc[i] = "fetching"}
Fetched == {i \in Ids : fetchCalls[i] > 0}

\* C1: a download that returns reports downloaded + failed == total_objects,
\* total_objects being the length of the domain-filtered listing; while the
\* tasks run, every finished task is counted exactly once.
C1_DownloadStatsSum ==
    op = "download" =>
        /\ pc = "returned" =>
              /\ stats.downloaded + stats.failed = stats.total_objects
              /\ stats.total_objects =
                    Cardinality({i \in Ids : \/ req.domain_filter = NoFilter
                                             \/ Lower(DomainOf(i)) = Lower(req.domain_filter)})
              /\ stats.downloaded = Cardinality({i \in Ids : tpc[i] = "succeeded"})
              /\ stats.failed = Cardinality({i \in Ids : tpc[i] = "failed"})
        /\ pc = "running" =>
              /\ successful = Cardinality({i \in Ids : tpc[i] = "succeeded"})
              /\ failed = Cardinality({i \in Ids : tpc[i] = "failed"})

C1_Witness ==
    /\ op = "download" /\ pc = "returned"
    /\ stats.downloaded >= 1 /\ stats.failed >= 1
    /\ req.max_concurrent = MaxConc

\* C2: an update that returns reports
\* downloaded + already_cached + failed == total_objects on every path.
C2_UpdateStatsSum ==
    (op = "update" /\ pc = "returned") =>
        stats.downloaded + stats.already_cached + stats.failed = stats.total_objects

C2_Witness ==
    /\ op = "update" /\ pc = "returned"
    /\ stats.downloaded >= 1 /\ stats.failed + stats.already_cached >= 1
    /\ req.force_refresh
    /\ \E i \in Ids : cacheAtStart[i] = "detail"

\* C3: with max_concurrent = k >= 1 at most k fetch_object_by_id calls are
\* in flight in any state of a batch.
C3_InFlightBounded ==
    (Batch /\ pc = "running" /\ req.max_concurrent >= 1) =>
        Cardinality(InFlight) <= req.max_concurrent

C3_Witness ==
    /\ Batch /\ pc = "running"
    /\ req.max_concurrent >= 1
    /\ Cardinality(InFlight) = req.max_concurrent
    /\ \E i \in Ids : tpc[i] = "waiting"
    /\ \E i \in InFlight : lastError[i] # "none"

C5_DownloadReturns ==
    [](op = "download" /\ pc = "running" => <>(pc = "returned"))

\* C6: a search that returns reports total_matches == T, the number of all
\* matches found, and returns the first min(n, T) of them for a limit
\* n >= 0, all of them without a limit.
C6_LimitAfterCount ==
    spc = "returned" =>
        LET full == IF sop = "advanced" THEN SearchObjects(sresult, sreq)
                    ELSE SearchPropertiesOf(sresult, sreq.query)
            T == Len(full)
        IN /\ sresp.total_matches = T
           /\ sreq.limit = <<>> => sresp.matches = full
           /\ (sreq.limit # <<>> /\ sreq.limit[1] >= 0) =>
                 sresp.matches = SubSeq(full, 1, IF sreq.limit[1] < T THEN sreq.limit[1] ELSE T)

C6_Witness ==
    /\ spc = "returned"
    /\ sop = "advanced"
    /\ sreq.limit = <<1>>
    /\ sresp.total_matches >= 3
    /\ Len(sresp.matches) = 1
    /\ \E k \in DOMAIN sdownloaded : sdownloaded[k] = "detail"

C8_NotFoundNotRetried ==
    Batch =>
      \A i \in Ids :
        lastError[i] = "NotFound" =>
            (tpc[i] = "failed" /\ fetchCalls[i] = 1 /\ sleeps[i] = <<>>)

\* C9: with a cache, no more ids are counted as downloaded than this batch
\* has saved; when the batch ends every downloaded id has a detail record
\* in the cache and the records of the failed ids are as they were.
C9_SavedBeforeCounted ==
    (Batch /\ cachePresent /\ pc \in {"running", "returned"}) =>
        /\ successful <= Cardinality(saved)
        /\ \A i \in Ids : tpc[i] = "succeeded" => (i \in saved /\ cache[i] = "detail")
        /\ \A i \in Ids : tpc[i] = "failed" => cache[i] = cacheAtStart[i]

C9_Witness ==
    /\ Batch /\ cachePresent /\ pc = "returned"
    /\ \E i \in Ids : tpc[i] = "succeeded" /\ cacheAtStart[i] # "detail"
    /\ \E i \in Ids : tpc[i] = "failed" /\ cacheAtStart[i] = "summary"

\* C10: without force_refresh an update fetches exactly the listed ids that
\* were missing or summary-only when it was dispatched, and already_cached
\* counts the listed ids it skipped.
C10_FetchesOnlyMissing ==
    (op = "update" /\ cachePresent /\ ~req.force_refresh) =>
        /\ \A i \in Fetched : i \in SeqToSet(all_objects) /\ cacheAtStart[i] # "detail"
        /\ (pc = "returned" /\ req.max_concurrent >= 1) =>
              /\ Fetched = {i \in SeqToSet(all_objects) : cacheAtStart[i] # "detail"}
              /\ stats.already_cached =
                    Cardinality({i \in SeqToSet(all_objects) : cacheAtStart[i] = "detail"})

C10_Witness ==
    /\ op = "update" /\ cachePresent /\ ~req.force_refresh /\ pc = "returned"
    /\ stats.already_cached >= 1
    /\ \E i \in Fetched : cacheAtStart[i] = "summary"

C18_NotFoundSurfaces ==
    (qop = "get_object" /\ qfetch = "NotFound") =>
        (qpc = "raised" /\ qerr = "NotFound")

C15_ForceRefreshIsDownload ==
    (pc = "returned" /\ cachePresent
     /\ (op = "download" \/ (op = "update" /\ req.force_refresh))) =>
        LET listed == {i \in Ids : \/ req.domain_filter = NoFilter
                                   \/ Lower(DomainOf(i)) = Lower(req.domain_filter)}
            ok == {i \in listed : tpc[i] = "succeeded"}
            ko == {i \in listed : tpc[i] = "failed"}
        IN /\ Fetched = listed
           /\ ok \cup ko = listed
           /\ stats.total_objects = Cardinality(listed)
           /\ stats.downloaded = Cardinality(ok)
           /\ stats.failed = Cardinality(ko)
           /\ stats.already_cached = 0
           /\ cache = [i \in Ids |-> IF i \in ok THEN "detail" ELSE cacheAtStart[i]]
           /\ listed # {} => /\ cacheRelease = response.release
                             /\ cacheCount = response.total_count

C15_Witness ==
    /\ op = "update" /\ req.force_refresh /\ pc = "returned" /\ cachePresent
    /\ \E i \in Fetched : cacheAtStart[i] = "detail" /\ tpc[i] = "succeeded"
    /\ \E i \in Fetched : tpc[i] = "failed"

\* C16: the counts failed, cached and downloaded of the statistics a
\* download returns sum to total_objects.
C16_CountsSumToTotal ==
    (op = "download" /\ pc = "returned") =>
        stats.failed + stats.cached + stats.downloaded = stats.total_objects

\* C17: an advancedSearch over a cache that holds objects does not fail when
\* the listing cannot be fetched for the freshness check.
C17_SearchSurvivesFreshCheck ==
    (sop = "advanced" /\ cachePresent /\ CachedObjects(cache) # <<>>) =>
        spc # "raised"

\* The leaf buckets of a grouping, each with the keys on its path.
RECURSIVE Leaves(_, _)
Leaves(groups, path) ==
    UNION {IF groups[n].v.t = "list"
           THEN {[path |-> Append(path, groups[n].k), items |-> groups[n].v.items]}
           ELSE Leaves(groups[n].v.d, Append(path, groups[n].k)) :
           n \in DOMAIN groups}

RECURSIVE JoinPath(_)
JoinPath(path) ==
    IF Len(path) = 1 THEN path[1]
    ELSE path[1] \o <<"/">> \o JoinPath(Tail(path))

RECURSIVE SumOfSizes(_)
SumOfSizes(groups) ==
    IF groups = <<>> THEN 0
    ELSE Len(Head(groups).v.items) + SumOfSizes(Tail(groups))

Holds(items, obj) == \E n \in DOMAIN items : items[n] = obj

\* The object has the key as its value of the field.
HasKeyValue(obj, field, key) ==
    IF field = "propertySet"
    THEN \E n \in DOMAIN obj.property_sets : obj.property_sets[n] = key
    ELSE GroupFieldValue(obj, field) = <<key>>

\* C13: grouping by domain places each resolved object in exactly one group,
\* so the group sizes sum to total_objects; grouping by propertySet places
\* an object in the bucket of every property set it has.
C13_DomainGroupsPartition ==
    gpc = "returned" =>
        /\ greq.group_by = <<"domain">> =>
              /\ \A n \in DOMAIN gcached :
                    Cardinality({m \in DOMAIN gresult.groups :
                        Holds(gresult.groups[m].v.items, gcached[n])}) = 1
              /\ SumOfSizes(gresult.groups) = gresult.total_objects
        /\ greq.group_by = <<"propertySet">> =>
              \A n \in DOMAIN gcached :
                 \A p \in DOMAIN gcached[n].property_sets :
                    \E m \in DOMAIN gresult.groups :
                       /\ gresult.groups[m].k = gcached[n].property_sets[p]
                       /\ Holds(gresult.groups[m].v.items, gcached[n])

\* C19: grouping by a list of n >= 1 keys yields a nesting in which every
\* leaf list sits at depth n, level i being keyed by the value of the i-th
\* key, and every object of a leaf has the key value of each level of its
\* path.
C19_LeavesAtDepthN ==
    (gpc = "returned" /\ greq.is_list /\ greq.group_by # <<>>) =>
        \A leaf \in Leaves(gresult.groups, <<>>) :
            /\ Len(leaf.path) = Len(greq.group_by)
            /\ \A n \in DOMAIN leaf.items :
                  \A level \in DOMAIN leaf.path :
                     HasKeyValue(leaf.items[n], greq.group_by[level],
                                 leaf.path[level])

\* Two keys have produced two first-level groups and a leaf that holds two
\* objects.
C19_Witness ==
    /\ gpc = "returned"
    /\ greq.is_list
    /\ Len(greq.group_by) = 2
    /\ Len(gresult.groups) = 2
    /\ \E leaf \in Leaves(gresult.groups, <<>>) :
          Len(leaf.path) = 2 /\ Len(leaf.items) = 2

\* C20: group_counts is flat and has exactly one entry per leaf bucket,
\* keyed by the keys of the bucket's path joined with "/", its value the
\* number of objects in the bucket.
C20_OneCountPerLeaf ==
    (gpc = "returned" /\ gresult.has_counts /\ greq.group_by # <<>>) =>
        LET leaves == Leaves(gresult.groups, <<>>)
        IN /\ Len(gresult.group_counts) = Cardinality(leaves)
           /\ \A leaf \in leaves :
                 \E n \in DOMAIN gresult.group_counts :
                    /\ gresult.group_counts[n].k = JoinPath(leaf.path)
                    /\ gresult.group_counts[n].v = Len(leaf.items)

C27_StaleDetailRefetched ==
    [][ ( /\ qpc = "idle"
          /\ qop' = "get_object"
          /\ cachePresent
          /\ cache[qreq'.object_id] = "detail"
          /\ cacheRelease # 0
          /\ cacheRelease # srcRelease )
        => qpc' = "fetching" ]_vars

\* C22: listObjects returns as total the number of listed objects that
\* pass the domain filter and the name filter, and as objects the entries
\* offset+1 .. offset+limit of that filtered list in listing order; for a
\* limit and an offset that are not negative the page has
\* min(limit, max(0, total - offset)) objects, and the page followed by
\* the next page is the stretch of the filtered list they cover.
C22_PageOfFiltered ==
    (qop = "list_objects" /\ qpc = "returned") =>
        LET Passes(i) ==
                /\ \/ qreq.domain_filter = NoFilter
                   \/ Lower(DomainOf(i)) = Lower(qreq.domain_filter)
                /\ \/ qreq.search_query = <<>>
                   \/ Contains(Lower(NameOf(i)), Lower(qreq.search_query))
            filtered == SelectSeq(Listing, Passes)
            total == Cardinality({k \in DOMAIN Listing : Passes(Listing[k])})
            Min(a, b) == IF a < b THEN a ELSE b
            left == IF total - qreq.offset > 0 THEN total - qreq.offset ELSE 0
        IN /\ qresp.total = total
           /\ (qreq.limit >= 0 /\ qreq.offset >= 0) =>
                /\ Len(qresp.objects) = Min(qreq.limit, left)
                /\ \A k \in 1..Len(qresp.objects) :
                      qresp.objects[k] = filtered[qreq.offset + k]
                /\ qresp.objects
                     \o _paginate(filtered, qreq.limit, qreq.offset + qreq.limit)
                   = [k \in 1..Min(2 * qreq.limit, left) |-> filtered[qreq.offset + k]]
C22_Witness ==
    /\ qop = "list_objects"
    /\ qpc = "returned"
    /\ qreq.limit = 1
    /\ qreq.offset = 1
    /\ qresp.total = 2
    /\ Len(qresp.objects) = 1

\* C23: a request of the SBB client ends in one of three ways: it returns
\* the response, it raises ObjectNotFoundError after one attempt, or it
\* raises CatalogError after max_retries attempts.
C23_RequestOutcome ==
    (qop = "request" /\ qpc \in {"returned", "raised"}) =>
        \/ qpc = "returned" /\ qfetch = "ok"
        \/ qpc = "raised" /\ qerr = "ObjectNotFoundError" /\ qcalls = 1
        \/ qpc = "raised" /\ qerr = "CatalogError" /\ qcalls = max_retries

\* C28: every catalog call of a listObjects execution is made with the
\* language of the request.
C28_ListingLanguage ==
    qop = "list_objects" => qlangs \subseteq {qreq.language}

\* C24: the prefetch of an advancedSearch hands on a list as long as the
\* one it was given, holding at each position the fetched detail object
\* when the fetch for that position returned and the original object when
\* it raised or none was needed, in whatever order the fetches ended; and
\* a search raises only before any prefetch, never because a fetch did.
C24_PrefetchByPosition ==
    /\ (sop = "advanced" /\ spc = "returned") =>
          /\ Len(sresult) = Len(sobjects)
          /\ \A k \in DOMAIN sobjects :
                sresult[k] = IF sdownloaded[k] = "detail"
                             THEN [id |-> sobjects[k].id, level |-> "detail"]
                             ELSE sobjects[k]
    /\ (sop = "advanced" /\ spc = "raised") => sdownloaded = <<>>
C24_Witness ==
    /\ sop = "advanced"
    /\ spc = "returned"
    /\ \E j, k \in DOMAIN sdownloaded :
          /\ j < k
          /\ sdownloaded[j] = "failed"
          /\ sdownloaded[k] = "detail"
          /\ sresult[j].level = "summary"

\* C25: the total_matches of an advancedSearch is the number of matches
\* over every object of the listing that passes the domain filter, whether
\* or not the cache held a record of the object when the search began.
C25_SearchesWholeListing ==
    (sop = "advanced" /\ spc = "returned") =>
        LET listed == FilteredListing(sreq.domain_filter)
            LevelOf(i) == IF \E k \in DOMAIN sresult : sresult[k].id = i
                          THEN (CHOOSE o \in SeqToSet(sresult) : o.id = i).level
                          ELSE "summary"
            expected == [k \in DOMAIN listed |->
                           [id |-> listed[k], level |-> LevelOf(listed[k])]]
        IN sresp.total_matches = Len(SearchObjects(expected, sreq))

\* C26: a search field the input validation admits is searched: with
\* ifcClassAssignments among the fields, an object whose IFC classes
\* contain a value that matches the query yields a match in that field.
C26_AdmittedFieldSearched ==
    (sop = "advanced" /\ spc = "returned" /\ sreq.limit = <<>>) =>
        \A k \in DOMAIN sresult :
            LET obj == CatalogObject(sresult[k].id, sresult[k].level)
            IN ( /\ InSeq("ifcClassAssignments", sreq.search_fields)
                 /\ \E c \in DOMAIN obj.classifications :
                       _match_value(obj.classifications[c], sreq.query,
                                    sreq.match_mode, sreq.case_sensitive) )
               => \E m \in DOMAIN sresp.matches :
                     /\ sresp.matches[m].object_id = obj.id
                     /\ sresp.matches[m].field = "ifcClassAssignments"

RECURSIVE InOrderOf(_, _)
InOrderOf(part, whole) ==
    IF part = <<>> THEN TRUE
    ELSE IF whole = <<>> THEN FALSE
    ELSE IF Head(part) = Head(whole) THEN InOrderOf(Tail(part), Tail(whole))
    ELSE InOrderOf(part, Tail(whole))

\* C30: with no group-by and no sort the objects of the single group 'all'
\* follow the order of the requested ids.
C30_RequestOrderKept ==
    (gpc = "returned" /\ greq.group_by = <<>> /\ greq.sort_by = <<>>) =>
        /\ Len(gresult.groups) = 1
        /\ gresult.groups[1].k = All
        /\ LET items == gresult.groups[1].v.items
           IN InOrderOf([n \in DOMAIN items |-> items[n].id], greq.object_ids)
====
